---- MODULE Spec2Model ----
(***************************************************************************)
(* Line-growth engine of svg-drawer: a collision-avoiding, branching walk  *)
(* over a shared occupancy set.  Two variants are modelled side by side:   *)
(*   "eager"    svg-drawer.py  (main / generate_lines, create_branch_line) *)
(*   "deferred" testing.py     (CircuitBoardWindow, LIFO run stack)        *)
(* The initial state picks the variant; every action belongs to one.       *)
(* Two harnesses exercise parts of svg-drawer.py on their own: "scenarioA" *)
(* (one line on a 20 x 20 canvas) and "move" (try_move, systematic_move).  *)
(* Random draws (random.random()) are nondeterministic inputs: the event   *)
(* class r of Line.step and the axis coin of block_of_5_orth.              *)
(* The canvas, the trunk stop, the number of secondary lines and the       *)
(* deferred trunk budget are scaled down (the definitions named *Cells,    *)
(* TrunkStopCells, NumExtraLines, MainMaxSteps, MaxLines); the engine's    *)
(* own thresholds (10, 5, +5) are those of the source.  tick is a history  *)
(* variable that every scheduler step flips; fairness is stated on it.     *)
(***************************************************************************)
EXTENDS Integers, Sequences, FiniteSets, TLC

VARIABLES
    variant,        \* "eager" (svg-drawer.py) or "deferred" (testing.py)
    lines,          \* every Line object constructed in the session, by creation order
    occupied,       \* the global set `occupied`
    pc,             \* position of the scheduler
    i,              \* eager: loop index of `for i in range(num_extra_lines)`
    main_length,    \* eager: main_line.steps_taken after the trunk loop
    line_obj,       \* eager: index in lines of line_obj (0: none)
    branch_line,    \* eager: index in lines of branch_line (0: none)
    all_lines,      \* eager: all_lines, as indexes into lines
    lines_stack,    \* deferred: self.lines_stack, as indexes into lines
    finished_lines, \* deferred: self.finished_lines, as indexes into lines
    ev,             \* history: what the last call of Line.step() did
    tick,           \* history: parity of the scheduler steps taken so far
    probe           \* movement-policy harness: the last call and what it returned

vars == <<variant, lines, occupied, pc, i, main_length, line_obj, branch_line,
          all_lines, lines_stack, finished_lines, ev, tick, probe>>

----------------------------------------------------------------------------
(* Bounds of the model (scaled-down configuration).                        *)

EagerCells == 26          \* svg-drawer.py WIDTH = HEIGHT = EagerCells * STEP_SIZE
TrunkStopCells == 25      \* svg-drawer.py trunk stop (300) = TrunkStopCells * STEP_SIZE
NumExtraLines == 3        \* svg-drawer.py num_extra_lines (15)
DeferredWidthCells == 20  \* testing.py WIDTH = DeferredWidthCells * STEP_SIZE
DeferredHeightCells == 15 \* testing.py HEIGHT = DeferredHeightCells * STEP_SIZE
MainMaxSteps == 25        \* testing.py main_line max_steps (50)
MaxLines == 3             \* deferred: lines plus queued requests in one session
ScenarioMaxBudget == 25   \* scenarioA: the largest max_steps tried
MoveCells == 2            \* move: WIDTH = HEIGHT = MoveCells * STEP_SIZE

(* Program constants.                                                      *)

EagerStepSize == 5
DeferredStepSize == 10
ForbidSpecialUntil == 10
MinLeftoverToBranch == 10
OrthBlockLen == 5
BranchBonus == 5
SecondaryMargin == 5
OffsetUnit == 5
TrunkMaxSteps == 999999

(* The canvas of scenario A, in cells: bounds 0..20 with STEP_SIZE 5.      *)
ScenarioCells == 20 \div EagerStepSize

STEP_SIZE == IF variant = "deferred" THEN DeferredStepSize ELSE EagerStepSize

WIDTH == CASE variant = "eager" -> EagerCells * EagerStepSize
           [] variant = "deferred" -> DeferredWidthCells * DeferredStepSize
           [] variant = "scenarioA" -> ScenarioCells * EagerStepSize
           [] OTHER -> MoveCells * EagerStepSize

HEIGHT == CASE variant = "eager" -> EagerCells * EagerStepSize
            [] variant = "deferred" -> DeferredHeightCells * DeferredStepSize
            [] variant = "scenarioA" -> ScenarioCells * EagerStepSize
            [] OTHER -> MoveCells * EagerStepSize

TrunkStop == TrunkStopCells * EagerStepSize

None == <<>>

RDraws == {"branch", "orth", "diag"}   \* r < p_branch, r < p_branch + p_orth, else

Coins == {"h", "v"}                     \* random.random() < 0.5, else

----------------------------------------------------------------------------
(* Movement policy.                                                        *)

(* Mutant of in_bounds: the upper bounds are exclusive.                      *)
in_bounds_exclusive(x, y) == 0 <= x /\ x < WIDTH /\ 0 <= y /\ y < HEIGHT

in_bounds(x, y) == (0 <= x /\ x <= WIDTH) /\ (0 <= y /\ y <= HEIGHT)

(* Mutant of try_move: the occupancy test is dropped.                       *)
try_move_ignoring_occupied(occ, x, y, dx, dy) ==
    IF ~in_bounds(x + dx, y + dy) THEN None ELSE <<x + dx, y + dy>>

(* Mutant of try_move: the occupancy lookup swaps the coordinates.          *)
try_move_swapped_lookup(occ, x, y, dx, dy) ==
    LET nx == x + dx
        ny == y + dy
    IN  IF ~in_bounds(nx, ny) THEN None
        ELSE IF <<ny, nx>> \in occ THEN None
        ELSE <<nx, ny>>

try_move(occ, x, y, dx, dy) ==
    LET nx == x + dx
        ny == y + dy
    IN  IF ~in_bounds(nx, ny) THEN None
        ELSE IF <<nx, ny>> \in occ THEN None
        ELSE <<nx, ny>>

RECURSIVE try_fallbacks(_, _, _, _)
try_fallbacks(occ, x, y, fallback_directions) ==
    IF fallback_directions = <<>> THEN None
    ELSE LET attempted == try_move(occ, x, y, Head(fallback_directions)[1],
                                   Head(fallback_directions)[2])
         IN  IF attempted # None THEN attempted
             ELSE try_fallbacks(occ, x, y, Tail(fallback_directions))

(* Mutant of systematic_move: the fallbacks are tried before the primary.   *)
systematic_move_fallbacks_first(occ, x, y, primary_direction, fallback_directions) ==
    LET attempted == try_fallbacks(occ, x, y, fallback_directions)
    IN  IF attempted # None THEN attempted
        ELSE try_move(occ, x, y, primary_direction[1], primary_direction[2])

systematic_move(occ, x, y, primary_direction, fallback_directions) ==
    LET attempted == try_move(occ, x, y, primary_direction[1], primary_direction[2])
    IN  IF attempted # None THEN attempted
        ELSE try_fallbacks(occ, x, y, fallback_directions)

occupy_segment(occ, x1, y1, x2, y2) == occ \cup {<<x1, y1>>, <<x2, y2>>}

----------------------------------------------------------------------------
(* Line.  A "world" w is the line being stepped together with the global   *)
(* occupancy and the random draws the call has consumed so far.            *)
(* kind, parent, req, n_orth, n_req and req_log are history fields: the    *)
(* line's origin, the blocks it has run, the branch requests it has        *)
(* emitted and its steps_taken at each of them.                            *)

Line(start_x, start_y, max_steps, allow_branch, kind, parent, req) ==
    [path |-> << <<start_x, start_y>> >>,
     x |-> start_x, y |-> start_y,
     steps_taken |-> 0, max_steps |-> max_steps,
     forbid_special_until |-> ForbidSpecialUntil,
     used_orth |-> FALSE, used_branch |-> FALSE, allow_branch |-> allow_branch,
     active |-> TRUE, branch_requests |-> <<>>,
     kind |-> kind, parent |-> parent, req |-> req, n_orth |-> 0, n_req |-> 0,
     req_log |-> <<>>]

World(l, occ) == [l |-> l, occ |-> occ, r |-> "none", coin |-> "none"]

current_pos(l) == <<l.x, l.y>>

can_continue(l) == (l.steps_taken < l.max_steps) /\ l.active

(* Mutant of add_point: occupy_segment is not called.                       *)
add_point_without_occupy(w, nx, ny) ==
    [w EXCEPT !.l.x = nx, !.l.y = ny,
              !.l.path = Append(w.l.path, <<nx, ny>>),
              !.l.steps_taken = w.l.steps_taken + 1]

add_point(w, nx, ny) ==
    [w EXCEPT !.occ = occupy_segment(w.occ, w.l.x, w.l.y, nx, ny),
              !.l.x = nx, !.l.y = ny,
              !.l.path = Append(w.l.path, <<nx, ny>>),
              !.l.steps_taken = w.l.steps_taken + 1]

(* Mutant of deactivate: self.active = False is left out.                    *)
deactivate_forgotten(w) == w

deactivate(w) == [w EXCEPT !.l.active = FALSE]

(* Mutant of step_diagonal_with_systematic_fallback: horizontal first.      *)
step_horizontal_first(w) ==
    LET move == systematic_move(w.occ, w.l.x, w.l.y, <<STEP_SIZE, 0>>,
                                << <<STEP_SIZE, STEP_SIZE>>, <<0, STEP_SIZE>> >>)
    IN  IF move = None THEN deactivate(w)
        ELSE add_point(w, move[1], move[2])

step_diagonal_with_systematic_fallback(w) ==
    LET move == systematic_move(w.occ, w.l.x, w.l.y, <<STEP_SIZE, STEP_SIZE>>,
                                << <<STEP_SIZE, 0>>, <<0, STEP_SIZE>> >>)
    IN  IF move = None THEN deactivate(w)
        ELSE add_point(w, move[1], move[2])

(* Mutant of orth_remaining: the can_continue() test of the loop is dropped. *)
RECURSIVE orth_remaining_ignoring_budget(_, _, _, _, _)
orth_remaining_ignoring_budget(w, chosen_dir, primary, alternate, n) ==
    IF n = 0 THEN w
    ELSE LET move2 == systematic_move(w.occ, w.l.x, w.l.y, chosen_dir,
                                      IF chosen_dir = primary THEN <<alternate>>
                                      ELSE <<primary>>)
         IN  IF move2 = None THEN deactivate(w)
             ELSE orth_remaining_ignoring_budget(add_point(w, move2[1], move2[2]),
                                                 chosen_dir, primary, alternate, n - 1)

(* svg-drawer.py block_of_5_orth: the 4 sub-steps after the first.          *)
RECURSIVE orth_remaining(_, _, _, _, _)
orth_remaining(w, chosen_dir, primary, alternate, n) ==
    IF n = 0 \/ ~can_continue(w.l) THEN w
    ELSE LET first_try == systematic_move(w.occ, w.l.x, w.l.y, chosen_dir, <<>>)
             fallback2 == IF chosen_dir = primary THEN <<alternate>> ELSE <<primary>>
             move2 == IF first_try = None
                      THEN systematic_move(w.occ, w.l.x, w.l.y, chosen_dir, fallback2)
                      ELSE first_try
         IN  IF move2 = None THEN deactivate(w)
             ELSE orth_remaining(add_point(w, move2[1], move2[2]),
                                 chosen_dir, primary, alternate, n - 1)

(* svg-drawer.py block_of_5_orth.  chosen_dir is recomputed from the line's *)
(* position AFTER the first move, as the code does (lines 164-168).         *)
block_of_5_orth(w, coin) ==
    LET primary == IF coin = "h" THEN <<STEP_SIZE, 0>> ELSE <<0, STEP_SIZE>>
        alternate == IF coin = "h" THEN <<0, STEP_SIZE>> ELSE <<STEP_SIZE, 0>>
        w0 == [w EXCEPT !.coin = coin, !.l.n_orth = w.l.n_orth + 1]
        first_move == systematic_move(w0.occ, w0.l.x, w0.l.y, primary, <<alternate>>)
    IN  IF first_move = None THEN deactivate(w0)
        ELSE LET w1 == add_point(w0, first_move[1], first_move[2])
                 first_primary == try_move(w1.occ, w1.l.x, w1.l.y, primary[1], primary[2])
                 chosen_dir == IF first_primary # None /\ first_primary = first_move
                               THEN primary ELSE alternate
             IN  orth_remaining(w1, chosen_dir, primary, alternate, OrthBlockLen - 1)

do_forced_5_orth_branch_start(w, coin) == block_of_5_orth(w, coin)

(* Mutant of try_branch: the line neither stops nor records the branch.     *)
try_branch_keeps_running(wr) ==
    IF wr.l.max_steps - wr.l.steps_taken >= MinLeftoverToBranch
    THEN [wr EXCEPT !.l.n_req = wr.l.n_req + 1,
                        !.l.req_log = Append(wr.l.req_log, wr.l.steps_taken)]
    ELSE step_diagonal_with_systematic_fallback(wr)

(* Mutant of try_branch: the threshold is strict (leftover > 10).           *)
try_branch_strict_threshold(wr) ==
    IF wr.l.max_steps - wr.l.steps_taken > MinLeftoverToBranch
    THEN [wr EXCEPT !.l.used_branch = TRUE, !.l.active = FALSE,
                    !.l.n_req = wr.l.n_req + 1,
                        !.l.req_log = Append(wr.l.req_log, wr.l.steps_taken)]
    ELSE step_diagonal_with_systematic_fallback(wr)

(* Mutant of try_branch: the leftover is not tested.                         *)
try_branch_without_threshold(wr) ==
    [wr EXCEPT !.l.used_branch = TRUE, !.l.active = FALSE,
               !.l.n_req = wr.l.n_req + 1,
               !.l.req_log = Append(wr.l.req_log, wr.l.steps_taken)]

(* svg-drawer.py Line.step, the branch outcome (r < 0.01).                  *)
try_branch(wr) ==
    LET leftover == wr.l.max_steps - wr.l.steps_taken
    IN  IF leftover >= MinLeftoverToBranch
        THEN [wr EXCEPT !.l.used_branch = TRUE, !.l.active = FALSE,
                        !.l.n_req = wr.l.n_req + 1,
                        !.l.req_log = Append(wr.l.req_log, wr.l.steps_taken)]
        ELSE step_diagonal_with_systematic_fallback(wr)

(* Mutant of orth_event: used_orth is not set.                               *)
orth_event_unmarked(wr, coin) == block_of_5_orth(wr, coin)

(* svg-drawer.py Line.step, the orth outcome (r < 0.02).                    *)
orth_event(wr, coin) == block_of_5_orth([wr EXCEPT !.l.used_orth = TRUE], coin)

(* Mutant of step: the can_continue() guard at its head is left out.         *)
step_without_guard(w, r, coin) ==
    IF w.l.steps_taken < w.l.forbid_special_until
    THEN step_diagonal_with_systematic_fallback(w)
    ELSE IF w.l.used_branch \/ w.l.used_orth \/ ~w.l.allow_branch
         THEN step_diagonal_with_systematic_fallback(w)
    ELSE LET wr == [w EXCEPT !.r = r]
         IN  CASE r = "branch" -> try_branch(wr)
               [] r = "orth" -> orth_event(wr, coin)
               [] OTHER -> step_diagonal_with_systematic_fallback(wr)

(* svg-drawer.py Line.step.  r and coin are the draws the call would get;   *)
(* w.r and w.coin record the ones it consumed.                              *)
step(w, r, coin) ==
    IF ~can_continue(w.l) THEN w
    ELSE IF w.l.steps_taken < w.l.forbid_special_until
         THEN step_diagonal_with_systematic_fallback(w)
    ELSE IF w.l.used_branch \/ w.l.used_orth \/ ~w.l.allow_branch
         THEN step_diagonal_with_systematic_fallback(w)
    ELSE LET wr == [w EXCEPT !.r = r]
         IN  CASE r = "branch" -> try_branch(wr)
               [] r = "orth" -> orth_event(wr, coin)
               [] OTHER -> step_diagonal_with_systematic_fallback(wr)

(* svg-drawer.py create_branch_line: None, or the world of the new line     *)
(* after its forced block.  parent is the parent's index in lines.          *)
create_branch_line(parent_line, parent, occ, coin) ==
    LET start == current_pos(parent_line)
        leftover == parent_line.max_steps - parent_line.steps_taken
        max_steps == leftover + BranchBonus
    IN  IF max_steps <= 0 THEN None
        ELSE do_forced_5_orth_branch_start(
                 World(Line(start[1], start[2], max_steps, FALSE, "branch", parent, 1),
                       occ \cup {start}),
                 coin)

----------------------------------------------------------------------------
(* testing.py Line (the deferred variant).  in_bounds, try_move,            *)
(* occupy_segment, can_continue and add_point are the same text there.      *)

(* Mutant of step_diagonal_with_fallback: a blocked line stays active.      *)
step_diagonal_never_stops(w) ==
    LET moved == systematic_move(w.occ, w.l.x, w.l.y, <<STEP_SIZE, STEP_SIZE>>,
                                 << <<STEP_SIZE, 0>>, <<0, STEP_SIZE>> >>)
    IN  IF moved # None THEN add_point(w, moved[1], moved[2]) ELSE w

step_diagonal_with_fallback(w) ==
    LET moved == try_move(w.occ, w.l.x, w.l.y, STEP_SIZE, STEP_SIZE)
    IN  IF moved # None THEN add_point(w, moved[1], moved[2])
        ELSE LET moved2 == try_fallbacks(w.occ, w.l.x, w.l.y,
                                         << <<STEP_SIZE, 0>>, <<0, STEP_SIZE>> >>)
             IN  IF moved2 # None THEN add_point(w, moved2[1], moved2[2])
                 ELSE deactivate(w)

RECURSIVE orth_loop(_, _, _, _)
orth_loop(w, primary, fallback, steps_done) ==
    IF ~(steps_done < OrthBlockLen /\ can_continue(w.l)) THEN w
    ELSE LET moved == try_move(w.occ, w.l.x, w.l.y, primary[1], primary[2])
         IN  IF moved = None
             THEN LET moved2 == try_move(w.occ, w.l.x, w.l.y, fallback[1], fallback[2])
                  IN  IF moved2 = None THEN deactivate(w)
                      ELSE orth_loop(add_point(w, moved2[1], moved2[2]),
                                     primary, fallback, steps_done + 1)
             ELSE orth_loop(add_point(w, moved[1], moved[2]),
                            primary, fallback, steps_done + 1)

t_block_of_5_orth(w, coin) ==
    IF w.l.used_orth THEN w
    ELSE LET primary == IF coin = "h" THEN <<STEP_SIZE, 0>> ELSE <<0, STEP_SIZE>>
             fallback == IF coin = "h" THEN <<0, STEP_SIZE>> ELSE <<STEP_SIZE, 0>>
             w0 == [w EXCEPT !.coin = coin, !.l.n_orth = w.l.n_orth + 1]
             w1 == orth_loop(w0, primary, fallback, 0)
         IN  [w1 EXCEPT !.l.used_orth = TRUE]

(* Mutant of queue_branch: the request carries the leftover without +5.     *)
queue_branch_without_bonus(wr) ==
    LET leftover == wr.l.max_steps - wr.l.steps_taken
    IN  IF leftover >= MinLeftoverToBranch
        THEN [wr EXCEPT !.l.branch_requests =
                            Append(wr.l.branch_requests,
                                   <<wr.l.x, wr.l.y, leftover>>),
                        !.l.n_req = wr.l.n_req + 1,
                        !.l.req_log = Append(wr.l.req_log, wr.l.steps_taken)]
        ELSE step_diagonal_with_fallback(wr)

(* testing.py Line.step, the branch outcome (r < 0.1).                      *)
queue_branch(wr) ==
    LET leftover == wr.l.max_steps - wr.l.steps_taken
    IN  IF leftover >= MinLeftoverToBranch
        THEN [wr EXCEPT !.l.branch_requests =
                            Append(wr.l.branch_requests,
                                   <<wr.l.x, wr.l.y, leftover + BranchBonus>>),
                        !.l.n_req = wr.l.n_req + 1,
                        !.l.req_log = Append(wr.l.req_log, wr.l.steps_taken)]
        ELSE step_diagonal_with_fallback(wr)

t_step(w, r, coin) ==
    IF ~can_continue(w.l) THEN w
    ELSE IF w.l.steps_taken < w.l.forbid_special_until
         THEN step_diagonal_with_fallback(w)
    ELSE LET wr == [w EXCEPT !.r = r]
         IN  CASE r = "branch" -> queue_branch(wr)
               [] r = "orth" -> t_block_of_5_orth(wr, coin)
               [] OTHER -> step_diagonal_with_fallback(wr)

----------------------------------------------------------------------------
(* History of the last Line.step() call: the line, the draws it consumed,   *)
(* the line before and after, which of its three neighbours were free       *)
(* before the call, and the points the call added to the grid.              *)

Free(l, occ) ==
    [d |-> try_move(occ, l.x, l.y, STEP_SIZE, STEP_SIZE) # None,
     h |-> try_move(occ, l.x, l.y, STEP_SIZE, 0) # None,
     v |-> try_move(occ, l.x, l.y, 0, STEP_SIZE) # None]

NoLine == Line(0, 0, 0, FALSE, "none", 0, 0)

NoEvent == [line |-> 0, r |-> "none", coin |-> "none", pre |-> NoLine,
            post |-> NoLine, free |-> [d |-> FALSE, h |-> FALSE, v |-> FALSE],
            added |-> {}, reset |-> "none"]

Event(id, w0, w1) ==
    [line |-> id, r |-> w1.r, coin |-> w1.coin, pre |-> w0.l, post |-> w1.l,
     free |-> Free(w0.l, w0.occ), added |-> w1.occ \ w0.occ, reset |-> "none"]

(* What a key press leaves in the history: no step() call yet, where the    *)
(* scheduler was when the key was pressed, and the trunk it discarded.      *)
ResetEvent(from, old) == [NoEvent EXCEPT !.reset = from, !.pre = old]

(* The harness of the movement policy has not called anything yet.          *)
NoProbe == [primary |-> <<0, 0>>, fallbacks |-> <<>>, first |-> None,
            chosen |-> None, grid |-> {}]

----------------------------------------------------------------------------
(* svg-drawer.py main / generate_lines (the eager scheduler).               *)

InitEager ==
    /\ variant = "eager"
    /\ lines = << Line(0, 0, TrunkMaxSteps, FALSE, "trunk", 0, 0) >>
    /\ occupied = { <<0, 0>> }
    /\ pc = "trunk"
    /\ i = 0
    /\ main_length = 0
    /\ line_obj = 0
    /\ branch_line = 0
    /\ all_lines = <<1>>
    /\ lines_stack = <<>>
    /\ finished_lines = <<>>
    /\ ev = NoEvent
    /\ tick = 0
    /\ probe = NoProbe

(* One iteration of `while main_line.active`; the loop's exit records       *)
(* main_length and enters the for loop.                                     *)
TrunkStep ==
    /\ tick' = 1 - tick
    /\ variant = "eager" /\ pc = "trunk"
    /\ LET w0 == World(lines[1], occupied)
           w1 == IF w0.l.x >= TrunkStop \/ w0.l.y >= TrunkStop
                 THEN deactivate(w0)
                 ELSE step_diagonal_with_systematic_fallback(w0)
       IN  /\ lines' = [lines EXCEPT ![1] = w1.l]
           /\ occupied' = w1.occ
           /\ IF w1.l.active
              THEN UNCHANGED <<pc, main_length>>
              ELSE /\ main_length' = w1.l.steps_taken
                   /\ pc' = IF NumExtraLines > 0 THEN "spawn" ELSE "done"
    /\ UNCHANGED <<variant, probe, i, line_obj, branch_line, all_lines, lines_stack,
                   finished_lines, ev>>

max_steps_secondary == IF main_length - SecondaryMargin > 1
                       THEN main_length - SecondaryMargin ELSE 1

(* The head of one iteration of the for loop: the offset and Line(...).     *)
SpawnSecondary ==
    /\ tick' = 1 - tick
    /\ variant = "eager" /\ pc = "spawn"
    /\ LET offset_val == OffsetUnit * (i + 1)
           start == IF i % 2 = 0 THEN <<0, offset_val>> ELSE <<offset_val, 0>>
       IN  /\ lines' = Append(lines, Line(start[1], start[2], max_steps_secondary,
                                          TRUE, "secondary", 0, 0))
           /\ occupied' = occupied \cup {start}
    /\ line_obj' = Len(lines) + 1
    /\ branch_line' = 0
    /\ pc' = "secondary"
    /\ UNCHANGED <<variant, probe, i, main_length, all_lines, lines_stack, finished_lines, ev>>

(* Mutant of NextIteration: line_obj is not appended to all_lines.          *)
NextIterationWithoutAppend(all) ==
    /\ all_lines' = all
    /\ i' = i + 1
    /\ pc' = IF i + 1 < NumExtraLines THEN "spawn" ELSE "done"

(* all_lines.append(line_obj) and the next iteration of the for loop.       *)
NextIteration(all) ==
    /\ all_lines' = Append(all, line_obj)
    /\ i' = i + 1
    /\ pc' = IF i + 1 < NumExtraLines THEN "spawn" ELSE "done"

(* One iteration of `while line_obj.can_continue()`: line_obj.step(), and   *)
(* on a branch create_branch_line with its forced block.                    *)
SecondaryStep ==
    /\ tick' = 1 - tick
    /\ variant = "eager" /\ pc = "secondary"
    /\ \E r \in RDraws, coin \in Coins :
         LET w0 == World(lines[line_obj], occupied)
             w1 == step(w0, r, coin)
             branched == w1.l.used_branch /\ ~w1.l.active
             wb == IF branched
                   THEN create_branch_line(w1.l, line_obj, w1.occ, coin)
                   ELSE None
             lines1 == [lines EXCEPT ![line_obj] = w1.l]
         IN  /\ ev' = Event(line_obj, w0, w1)
             /\ IF branched /\ wb # None
                THEN /\ lines' = Append(lines1, wb.l)
                     /\ occupied' = wb.occ
                     /\ branch_line' = Len(lines) + 1
                     /\ IF can_continue(wb.l)
                        THEN /\ pc' = "branch"
                             /\ all_lines' = Append(all_lines, Len(lines) + 1)
                             /\ UNCHANGED i
                        ELSE NextIteration(Append(all_lines, Len(lines) + 1))
                ELSE /\ lines' = lines1
                     /\ occupied' = w1.occ
                     /\ UNCHANGED branch_line
                     /\ IF branched \/ ~can_continue(w1.l)
                        THEN NextIteration(all_lines)
                        ELSE UNCHANGED <<pc, i, all_lines>>
    /\ UNCHANGED <<variant, probe, main_length, line_obj, lines_stack, finished_lines>>

(* One iteration of `while branch_line.can_continue()`: branch_line.step(). *)
BranchStep ==
    /\ tick' = 1 - tick
    /\ variant = "eager" /\ pc = "branch"
    /\ \E r \in RDraws, coin \in Coins :
         LET w0 == World(lines[branch_line], occupied)
             w1 == step(w0, r, coin)
         IN  /\ ev' = Event(branch_line, w0, w1)
             /\ lines' = [lines EXCEPT ![branch_line] = w1.l]
             /\ occupied' = w1.occ
             /\ IF can_continue(w1.l)
                THEN UNCHANGED <<pc, i, all_lines>>
                ELSE NextIteration(all_lines)
    /\ UNCHANGED <<variant, probe, main_length, line_obj, branch_line, lines_stack,
                   finished_lines>>

----------------------------------------------------------------------------
(* testing.py CircuitBoardWindow (the deferred scheduler).                  *)

(* reset_generation: what it constructs.                                    *)
main_line == Line(0, 0, MainMaxSteps, TRUE, "trunk", 0, 0)

InitDeferred ==
    /\ variant = "deferred"
    /\ lines = << main_line >>
    /\ occupied = { <<0, 0>> }
    /\ lines_stack = <<1>>
    /\ finished_lines = <<>>
    /\ pc = "ticking"
    /\ i = 0
    /\ main_length = 0
    /\ line_obj = 0
    /\ branch_line = 0
    /\ all_lines = <<>>
    /\ ev = NoEvent
    /\ tick = 0
    /\ probe = NoProbe

(* Mutant of ResetGeneration: `global occupied` is missing, the old set     *)
(* stays in place.                                                          *)
ResetGenerationKeepingGrid ==
    /\ variant = "deferred"
    /\ lines' = << main_line >>
    /\ occupied' = occupy_segment(occupied, 0, 0, 0, 0)
    /\ lines_stack' = <<1>>
    /\ finished_lines' = <<>>
    /\ pc' = "ticking"
    /\ ev' = ResetEvent(pc, lines[1])
    /\ tick' = 0
    /\ UNCHANGED <<variant, probe, i, main_length, line_obj, branch_line, all_lines>>

(* keyPressEvent(Key_Space): timer.stop(), reset_generation().              *)
ResetGeneration ==
    /\ variant = "deferred"
    /\ lines' = << main_line >>
    /\ occupied' = occupy_segment({}, 0, 0, 0, 0)
    /\ lines_stack' = <<1>>
    /\ finished_lines' = <<>>
    /\ pc' = "ticking"
    /\ ev' = ResetEvent(pc, lines[1])
    /\ tick' = 0
    /\ UNCHANGED <<variant, probe, i, main_length, line_obj, branch_line, all_lines>>

QueuedRequests ==
    Cardinality(UNION { {<<k, j>> : j \in 1..Len(lines[k].branch_requests)}
                        : k \in 1..Len(lines) })

(* Mutant of BranchLines: the requests are taken in the order issued.       *)
BranchLinesInIssueOrder(reqs, parent) ==
    [k \in 1..Len(reqs) |->
        Line(reqs[k][1], reqs[k][2], reqs[k][3], TRUE, "branch", parent, k)]

(* The lines made from a finished line's requests, in the order             *)
(* `while current_line.branch_requests: ... pop()` makes them.              *)
BranchLines(reqs, parent) ==
    [k \in 1..Len(reqs) |->
        LET q == reqs[Len(reqs) + 1 - k]
        IN  Line(q[1], q[2], q[3], TRUE, "branch", parent, Len(reqs) + 1 - k)]

(* Mutant of stack_top: the oldest entry of the stack is taken.              *)
stack_bottom(stack) == stack[1]

(* self.lines_stack[-1]                                                     *)
stack_top(stack) == stack[Len(stack)]

(* One timer tick.  A draw that would queue a request beyond MaxLines is    *)
(* left out: the number of requests of a session is otherwise unbounded.    *)
StepGeneration ==
    /\ variant = "deferred" /\ pc = "ticking"
    /\ tick' = 1 - tick
    /\ IF lines_stack = <<>>
       THEN /\ pc' = "finished"
            /\ UNCHANGED <<lines, occupied, lines_stack, finished_lines, ev>>
       ELSE \E r \in RDraws, coin \in Coins :
              LET current_line == stack_top(lines_stack)
                  w0 == World(lines[current_line], occupied)
                  w1 == t_step(w0, r, coin)
                  reqs == w1.l.branch_requests
                  new == BranchLines(reqs, current_line)
              IN  /\ w1.l.n_req > w0.l.n_req => Len(lines) + QueuedRequests < MaxLines
                  /\ ev' = Event(current_line, w0, w1)
                  /\ pc' = pc
                  /\ IF ~can_continue(w1.l)
                     THEN /\ lines' = [lines EXCEPT ![current_line] =
                                          [w1.l EXCEPT !.branch_requests = <<>>]] \o new
                          /\ occupied' = w1.occ \cup {<<new[k].x, new[k].y>> : k \in 1..Len(new)}
                          /\ lines_stack' = SubSeq(lines_stack, 1, Len(lines_stack) - 1)
                                            \o [k \in 1..Len(new) |-> Len(lines) + k]
                          /\ finished_lines' = Append(finished_lines, current_line)
                     ELSE /\ lines' = [lines EXCEPT ![current_line] = w1.l]
                          /\ occupied' = w1.occ
                          /\ UNCHANGED <<lines_stack, finished_lines>>
    /\ UNCHANGED <<variant, probe, i, main_length, line_obj, branch_line, all_lines>>

----------------------------------------------------------------------------
(* Scenario A: one Line of svg-drawer.py on the canvas 0..20, stepped as    *)
(* main() steps a secondary line (`while line_obj.can_continue():           *)
(* line_obj.step()`), with draws that never select branch or orth.          *)

ScenarioDraws == {"diag"}

InitScenarioA ==
    /\ variant = "scenarioA"
    /\ \E budget \in 5..ScenarioMaxBudget :
          lines = << Line(0, 0, budget, TRUE, "secondary", 0, 0) >>
    /\ occupied = { <<0, 0>> }
    /\ pc = "stepping"
    /\ i = 0
    /\ main_length = 0
    /\ line_obj = 1
    /\ branch_line = 0
    /\ all_lines = <<>>
    /\ lines_stack = <<>>
    /\ finished_lines = <<>>
    /\ ev = NoEvent
    /\ tick = 0
    /\ probe = NoProbe

ScenarioStep ==
    /\ variant = "scenarioA" /\ pc = "stepping"
    /\ \E r \in ScenarioDraws, coin \in Coins :
         LET w0 == World(lines[line_obj], occupied)
             w1 == step(w0, r, coin)
         IN  /\ ev' = Event(line_obj, w0, w1)
             /\ lines' = [lines EXCEPT ![line_obj] = w1.l]
             /\ occupied' = w1.occ
             /\ pc' = IF can_continue(w1.l) THEN pc ELSE "ended"
    /\ tick' = 1 - tick
    /\ UNCHANGED <<variant, probe, i, main_length, line_obj, branch_line, all_lines,
                   lines_stack, finished_lines>>

SpecScenarioA == InitScenarioA /\ [][ScenarioStep]_vars

----------------------------------------------------------------------------
(* The movement policy of svg-drawer.py on its own: try_move and            *)
(* systematic_move called from a point of a small canvas, with any of its   *)
(* three neighbours occupied, with the directions the program uses.         *)

MoveDirs == { <<STEP_SIZE, STEP_SIZE>>, <<STEP_SIZE, 0>>, <<0, STEP_SIZE>> }

FallbackLists ==
    { <<>> } \cup { <<d>> : d \in MoveDirs } \cup { <<d, e>> : d \in MoveDirs, e \in MoveDirs }

InitMove ==
    /\ variant = "move"
    /\ \E cx \in 0..MoveCells, cy \in 0..MoveCells :
          /\ lines = << Line(cx * STEP_SIZE, cy * STEP_SIZE, 1, FALSE, "none", 0, 0) >>
          /\ \E taken \in SUBSET { <<cx * STEP_SIZE + d[1], cy * STEP_SIZE + d[2]>> : d \in MoveDirs } :
                /\ \A pt \in taken : in_bounds(pt[1], pt[2])
                /\ occupied = taken \cup { <<cx * STEP_SIZE, cy * STEP_SIZE>> }
    /\ pc = "ready"
    /\ i = 0
    /\ main_length = 0
    /\ line_obj = 1
    /\ branch_line = 0
    /\ all_lines = <<>>
    /\ lines_stack = <<>>
    /\ finished_lines = <<>>
    /\ ev = NoEvent
    /\ tick = 0
    /\ probe = NoProbe

(* One call of try_move(x, y, primary) and one of systematic_move(x, y,     *)
(* primary, fallbacks); neither writes `occupied`.                          *)
ProbeMove ==
    /\ variant = "move" /\ pc = "ready"
    /\ \E primary \in MoveDirs, fallbacks \in FallbackLists :
          probe' = [primary |-> primary, fallbacks |-> fallbacks,
                    first |-> try_move(occupied, lines[1].x, lines[1].y,
                                       primary[1], primary[2]),
                    chosen |-> systematic_move(occupied, lines[1].x, lines[1].y,
                                               primary, fallbacks),
                    grid |-> occupied]
    /\ pc' = "probed"
    /\ UNCHANGED <<variant, lines, occupied, i, main_length, line_obj, branch_line,
                   all_lines, lines_stack, finished_lines, ev, tick>>

SpecMove == InitMove /\ [][ProbeMove]_vars

----------------------------------------------------------------------------
Init == InitEager \/ InitDeferred

Next ==
    \/ TrunkStep
    \/ SpawnSecondary
    \/ SecondaryStep
    \/ BranchStep
    \/ StepGeneration
    \/ ResetGeneration

Spec == Init /\ [][Next]_vars

(* svg-drawer.py run on its own.  main() is one sequential program: it      *)
(* takes its next step whenever it has one, hence the weak fairness.        *)
(* Every step of it flips tick, and it has a step unless main() is done:   *)
(* EagerRuns is NextEager seen on tick alone.                               *)
NextEager ==
    \/ TrunkStep
    \/ SpawnSecondary
    \/ SecondaryStep
    \/ BranchStep

EagerRuns == variant = "eager" /\ pc # "done" /\ tick' = 1 - tick

SpecEager == InitEager /\ [][NextEager]_vars /\ WF_tick(EagerRuns)

(* One session of testing.py without a key press.  The QTimer started by    *)
(* reset_generation fires every 50 ms until finish_generation stops it, so  *)
(* a tick that can happen does happen: weak fairness of the tick.           *)
(* TimerFires is StepGeneration seen on tick alone.                        *)
NextTick == StepGeneration

TimerFires == variant = "deferred" /\ pc = "ticking" /\ tick' = 1 - tick

SpecDeferredRun == InitDeferred /\ [][NextTick]_vars /\ WF_tick(TimerFires)

(* Line.step() of svg-drawer.py called as main() calls it and, once main()  *)
(* has made all its lines, called once more on any of them: main() itself   *)
(* never calls step() on a line that cannot continue.                       *)
StepTerminalLine ==
    /\ variant = "eager" /\ pc = "done"
    /\ \E k \in 1..Len(lines), r \in RDraws, coin \in Coins :
         LET w0 == World(lines[k], occupied)
             w1 == step(w0, r, coin)
         IN  /\ ev' = Event(k, w0, w1)
             /\ lines' = [lines EXCEPT ![k] = w1.l]
             /\ occupied' = w1.occ
    /\ UNCHANGED <<variant, probe, pc, i, main_length, line_obj, branch_line,
                   all_lines, lines_stack, finished_lines, tick>>

NextStepCalls ==
    \/ TrunkStep
    \/ SpawnSecondary
    \/ SecondaryStep
    \/ BranchStep
    \/ StepTerminalLine

SpecStepCalls == InitEager /\ [][NextStepCalls]_vars

----------------------------------------------------------------------------
(* Vocabulary of the properties.                                            *)

LineIds == 1..Len(lines)

Points(l, from) == { l.path[p] : p \in from..Len(l.path) }

IsBranchLine(l) == l.kind = "branch"

(* The k-th move of a line: the difference of path[k+1] and path[k].        *)
Delta(l, k) == <<l.path[k + 1][1] - l.path[k][1], l.path[k + 1][2] - l.path[k][2]>>

IsDiagonal(d) == d = <<STEP_SIZE, STEP_SIZE>>

IsAxisAligned(d) == d = <<STEP_SIZE, 0>> \/ d = <<0, STEP_SIZE>>

Min(a, b) == IF a < b THEN a ELSE b

Blocked(pt) == ~in_bounds(pt[1], pt[2]) \/ pt \in occupied

RECURSIVE SumOver(_, _)
SumOver(f, n) == IF n = 0 THEN 0 ELSE f[n] + SumOver(f, n - 1)

(* A step() call has happened and ev describes it.                          *)
Stepped == ev.line # 0

Saturated(e) == ~e.free.d /\ ~e.free.h /\ ~e.free.v

(* The move the diagonal-with-fallback policy makes from a point whose      *)
(* free neighbours are `free`.                                              *)
PolicyMove(free) ==
    IF free.d THEN <<STEP_SIZE, STEP_SIZE>>
    ELSE IF free.h THEN <<STEP_SIZE, 0>>
    ELSE <<0, STEP_SIZE>>

----------------------------------------------------------------------------
(* C1 (as stated): global point uniqueness -- the number of distinct       *)
(* points on all paths equals the sum of the path lengths, branch start    *)
(* points included.                                                        *)
C1_GlobalUniqueness ==
    Cardinality(UNION { Points(lines[k], 1) : k \in LineIds })
        = SumOver([k \in LineIds |-> Len(lines[k].path)], Len(lines))

(* C1 (amended): the path positions other than the first point of a branch *)
(* line are pairwise distinct, across lines and within a line, and the     *)
(* first point of a branch line is a point of its parent's path.           *)
C1_UniqueExceptBranchStarts ==
    /\ Cardinality(UNION { Points(lines[k], IF IsBranchLine(lines[k]) THEN 2 ELSE 1)
                           : k \in LineIds })
         = SumOver([k \in LineIds |->
                       Len(lines[k].path) - (IF IsBranchLine(lines[k]) THEN 1 ELSE 0)],
                   Len(lines))
    /\ \A k \in LineIds :
         IsBranchLine(lines[k]) =>
            lines[k].path[1] \in Points(lines[lines[k].parent], 1)

(* C1 witness: a branch line has moved away from the start point it shares *)
(* with its parent, whose path has other points too.                       *)
C1_Witness ==
    \E k \in LineIds :
        /\ IsBranchLine(lines[k])
        /\ lines[k].steps_taken >= 2
        /\ lines[lines[k].parent].steps_taken >= ForbidSpecialUntil

(* C2: bounds and budget -- every line has steps_taken <= max_steps and    *)
(* every point of every path lies in 0..WIDTH x 0..HEIGHT.                 *)
C2_BoundsAndBudget ==
    \A k \in LineIds :
        /\ lines[k].steps_taken <= lines[k].max_steps
        /\ lines[k].steps_taken = Len(lines[k].path) - 1
        /\ \A pt \in Points(lines[k], 1) :
              0 <= pt[1] /\ pt[1] <= WIDTH /\ 0 <= pt[2] /\ pt[2] <= HEIGHT

(* C2 witness: an orthogonal block run by step() was cut short by the      *)
(* budget: the line is still active, has used its last step and the block  *)
(* made fewer than 5 moves.                                                *)
C2_Witness ==
    /\ Stepped
    /\ ev.coin # "none"
    /\ ev.post.active
    /\ ev.post.steps_taken = ev.post.max_steps
    /\ ev.post.steps_taken - ev.pre.steps_taken < OrthBlockLen
    /\ ev.post.steps_taken - ev.pre.steps_taken >= 2

(* C3 (as stated): every one of the first min(steps_taken, 10) moves of a  *)
(* trunk or secondary line is diagonal.                                    *)
C3_FirstTenDiagonal ==
    \A k \in LineIds :
        ~IsBranchLine(lines[k]) =>
            \A m \in 1..Min(lines[k].steps_taken, ForbidSpecialUntil) :
                IsDiagonal(Delta(lines[k], m))

(* C3 (amended): every one of the first min(steps_taken, 10) moves of a    *)
(* trunk or secondary line is a move of the diagonal-with-fallback policy: *)
(* diagonal, or horizontal when the diagonal destination is blocked, or    *)
(* vertical when the diagonal and the horizontal destination are blocked;  *)
(* and no branch request or orthogonal block happens before 10 steps.      *)
C3_FirstTenDiagonalOrFallback ==
    \A k \in LineIds :
        ~IsBranchLine(lines[k]) =>
            /\ \A m \in 1..Min(lines[k].steps_taken, ForbidSpecialUntil) :
                  LET from == lines[k].path[m]
                      d == Delta(lines[k], m)
                  IN  \/ IsDiagonal(d)
                      \/ /\ d = <<STEP_SIZE, 0>>
                         /\ Blocked(<<from[1] + STEP_SIZE, from[2] + STEP_SIZE>>)
                      \/ /\ d = <<0, STEP_SIZE>>
                         /\ Blocked(<<from[1] + STEP_SIZE, from[2] + STEP_SIZE>>)
                         /\ Blocked(<<from[1] + STEP_SIZE, from[2]>>)
            /\ lines[k].steps_taken < ForbidSpecialUntil =>
                  lines[k].n_orth = 0 /\ lines[k].n_req = 0

(* C3 witness: a secondary line made a fallback move among its first 10.   *)
C3_Witness ==
    \E k \in LineIds :
        /\ lines[k].kind = "secondary"
        /\ \E m \in 1..Min(lines[k].steps_taken, ForbidSpecialUntil) :
              IsAxisAligned(Delta(lines[k], m))

(* C4: every line created from a branch request is forced through one     *)
(* orthogonal block first -- its first min(steps_taken, 5) moves are       *)
(* axis-aligned and it has run its block before any other move.            *)
C4_BranchLineStartsOrthogonal ==
    \A k \in LineIds :
        IsBranchLine(lines[k]) =>
            /\ \A m \in 1..Min(lines[k].steps_taken, OrthBlockLen) :
                  IsAxisAligned(Delta(lines[k], m))
            /\ lines[k].steps_taken > 0 => lines[k].n_orth = 1

(* C5: no line created from a branch request ever emits a branch request   *)
(* or enters the BRANCHED state.                                           *)
C5_BranchLinesNeverBranch ==
    \A k \in LineIds :
        IsBranchLine(lines[k]) =>
            /\ lines[k].n_req = 0
            /\ ~lines[k].used_branch
            /\ lines[k].branch_requests = <<>>

(* C6 (as stated): a line emits at most one branch request in its life,    *)
(* under both schedulers.                                                  *)
C6_AtMostOneBranchEvent == \A k \in LineIds : lines[k].n_req <= 1

(* C6 (amended): under the eager scheduler a line emits at most one branch *)
(* request in its life, and it has emitted one exactly when used_branch is *)
(* set (the deferred scheduler lets a line queue several).                 *)
C6_EagerAtMostOneBranchEvent ==
    variant = "eager" =>
        \A k \in LineIds :
            /\ lines[k].n_req <= 1
            /\ lines[k].n_req = 1 <=> lines[k].used_branch

(* C6 witness: an eager line branched and the scheduler has finished the   *)
(* whole session after it.                                                 *)
C6_Witness ==
    /\ variant = "eager"
    /\ pc = "done"
    /\ \E k \in LineIds : lines[k].n_req = 1 /\ lines[k].used_branch

(* C7: every line runs at most one orthogonal block (one axis draw) in its *)
(* life, the forced block of a branch line included.                       *)
C7_AtMostOneOrthBlock == \A k \in LineIds : lines[k].n_orth <= 1

(* C7 witness: a line that has run its block draws the orth outcome again  *)
(* and runs no second block.                                               *)
C7_Witness ==
    /\ Stepped
    /\ ev.r = "orth"
    /\ ev.pre.n_orth = 1
    /\ ev.post.n_orth = 1

Siblings(a, b) ==
    /\ a # b
    /\ IsBranchLine(lines[a]) /\ IsBranchLine(lines[b])
    /\ lines[a].parent = lines[b].parent

(* A fresh line that step() has been called on has moved or has stopped.   *)
WasStepped(l) == l.steps_taken > 0 \/ ~l.active

(* C8 (as stated): of two children of one line, the child of the later     *)
(* request is stepped to a terminal state before the child of the earlier  *)
(* request is stepped at all.                                              *)
C8_LastRequestGrownFirst ==
    variant = "deferred" =>
        \A a, b \in LineIds :
            (Siblings(a, b) /\ lines[a].req > lines[b].req /\ WasStepped(lines[b]))
                => ~can_continue(lines[a])

(* C8 (amended): of two children of one line, the child of the EARLIER     *)
(* request is stepped to a terminal state before the child of the later    *)
(* request is stepped at all (the requests are popped last first and       *)
(* pushed, so the first request ends on top of the run stack).             *)
C8_FirstRequestGrownFirst ==
    variant = "deferred" =>
        \A a, b \in LineIds :
            (Siblings(a, b) /\ lines[a].req < lines[b].req /\ WasStepped(lines[b]))
                => ~can_continue(lines[a])

(* C8 witness: two children of one line, the first request's child grown   *)
(* and the second request's child stepped.                                 *)
C8_Witness ==
    /\ variant = "deferred"
    /\ \E a, b \in LineIds :
          /\ Siblings(a, b)
          /\ lines[a].req < lines[b].req
          /\ lines[a].steps_taken > 0
          /\ WasStepped(lines[b])

C10_BranchThreshold ==
    (Stepped /\ ev.r = "branch") =>
        LET leftover == ev.pre.max_steps - ev.pre.steps_taken
        IN  /\ (ev.post.n_req = ev.pre.n_req + 1) <=> (leftover >= MinLeftoverToBranch)
            /\ (ev.post.n_req = ev.pre.n_req) <=> (leftover < MinLeftoverToBranch)
            /\ leftover >= MinLeftoverToBranch =>
                  /\ ev.post.path = ev.pre.path
                  /\ ev.added = {}
            /\ leftover < MinLeftoverToBranch =>
                  /\ ~ev.post.used_branch
                  /\ ev.post.branch_requests = ev.pre.branch_requests
                  /\ IF Saturated(ev)
                     THEN ev.post.path = ev.pre.path /\ ~ev.post.active
                     ELSE /\ ev.post.active
                          /\ ev.post.steps_taken = ev.pre.steps_taken + 1
                          /\ SubSeq(ev.post.path, 1, Len(ev.pre.path)) = ev.pre.path
                          /\ Delta(ev.post, Len(ev.pre.path)) = PolicyMove(ev.free)

(* C10 witness (Scenario B): the branch outcome was drawn with exactly 9   *)
(* steps remaining and the line moved instead.                             *)
C10_Witness ==
    /\ Stepped /\ ev.r = "branch"
    /\ ev.pre.max_steps - ev.pre.steps_taken = MinLeftoverToBranch - 1
    /\ ev.post.steps_taken = ev.pre.steps_taken + 1
    /\ ev.post.n_req = 0

----------------------------------------------------------------------------
(* C11.  A branch line starts at the point its parent occupied when the    *)
(* parent drew the branch outcome, and its max_steps is the parent's       *)
(* max_steps minus the parent's steps_taken at that moment, plus 5, also   *)
(* when the parent has moved on since (deferred variant).                  *)
C11_ChildFromRequestMoment ==
    \A k \in LineIds :
        IsBranchLine(lines[k]) =>
            LET parent_line == lines[lines[k].parent]
                at == parent_line.req_log[lines[k].req]
            IN  /\ lines[k].path[1] = parent_line.path[at + 1]
                /\ lines[k].max_steps = (parent_line.max_steps - at) + BranchBonus

(* A deferred branch line whose parent kept moving after the request.       *)
C11_Witness ==
    \E k \in LineIds :
        /\ variant = "deferred"
        /\ IsBranchLine(lines[k])
        /\ lines[lines[k].parent].steps_taken
               > lines[lines[k].parent].req_log[lines[k].req]
        /\ lines[k].path[1] # current_pos(lines[lines[k].parent])

----------------------------------------------------------------------------
(* C12.  Whatever the draws, generate_lines of svg-drawer.py comes to its  *)
(* end (after finitely many step() calls) and from then on the trunk,      *)
(* every secondary line and every branch line is terminal and is in        *)
(* all_lines, with NumExtraLines secondary lines made.                     *)
C12_EagerSessionTerminates ==
    <>[](/\ pc = "done"
         /\ \A k \in LineIds :
               /\ ~can_continue(lines[k])
               /\ \E j \in 1..Len(all_lines) : all_lines[j] = k
         /\ Cardinality({k \in LineIds : lines[k].kind = "secondary"}) = NumExtraLines)

(* The end of a session in which a secondary line branched.                 *)
C12_Witness ==
    /\ variant = "eager"
    /\ pc = "done"
    /\ \E k \in LineIds : IsBranchLine(lines[k]) /\ lines[k].steps_taken > OrthBlockLen
    /\ Len(all_lines) = Len(lines)

----------------------------------------------------------------------------
(* C13.  A tick of the deferred session is idle when the step() call it     *)
(* makes leaves the line where it was and as active as it was: a branch    *)
(* draw that queues a request, or an orth draw on a line whose block has   *)
(* already run.                                                            *)
IdleTick ==
    /\ ev.line # 0
    /\ ev.post.steps_taken = ev.pre.steps_taken
    /\ ev.post.active = ev.pre.active
    /\ \/ ev.r = "branch" /\ ev.post.n_req = ev.pre.n_req + 1
       \/ ev.r = "orth" /\ ev.pre.used_orth

AllFinished ==
    /\ lines_stack = <<>>
    /\ \A k \in LineIds :
          /\ ~can_continue(lines[k])
          /\ \E j \in 1..Len(finished_lines) : finished_lines[j] = k

(* C13, as stated: after a reset and without another one, the ticks of a   *)
(* deferred session empty lines_stack and reach finish_generation with     *)
(* every line in finished_lines, whatever the draws.                       *)
C13_DeferredSessionTerminates == <>[](pc = "finished" /\ AllFinished)

(* C13, amended: finish_generation is reached only with every line         *)
(* terminal and in finished_lines, and it is reached unless from some tick *)
(* on every tick is idle.                                                  *)
C13_TerminatesUnlessIdleForever ==
    /\ [](pc = "finished" => AllFinished)
    /\ (<>(pc = "finished") \/ <>[]IdleTick)

(* A finished session in which requests were queued and grown.              *)
C13_Witness ==
    /\ variant = "deferred"
    /\ pc = "finished"
    /\ Len(lines) >= 2
    /\ \E k \in LineIds : lines[k].n_orth = 1

----------------------------------------------------------------------------
(* C15.  Right after reset_generation (a key press while ticking or after   *)
(* finish_generation) the grid is {(0,0)}, the run stack holds the new      *)
(* trunk alone, with no step taken and no request queued, and               *)
(* finished_lines is empty; and nothing of an earlier session survives      *)
(* later: the grid is at all times exactly the set of the path points of    *)
(* the lines made since the last reset, each of which is on the run stack   *)
(* or in finished_lines.                                                    *)
C15_ResetLeavesFreshSession ==
    variant = "deferred" =>
        /\ ev.reset # "none" =>
              /\ occupied = { <<0, 0>> }
              /\ lines_stack = <<1>>
              /\ lines = << main_line >>
              /\ lines[1].steps_taken = 0 /\ lines[1].branch_requests = <<>>
              /\ finished_lines = <<>>
        /\ occupied = UNION { Points(lines[k], 1) : k \in LineIds }
        /\ \A k \in LineIds :
              \/ \E j \in 1..Len(lines_stack) : lines_stack[j] = k
              \/ \E j \in 1..Len(finished_lines) : finished_lines[j] = k
        /\ \A j \in 1..Len(lines_stack) : lines_stack[j] \in LineIds
        /\ \A j \in 1..Len(finished_lines) : finished_lines[j] \in LineIds

(* The state left by a key press in the middle of a generation whose trunk  *)
(* had moved and queued a request.                                          *)
C15_Witness ==
    /\ variant = "deferred"
    /\ ev.reset = "ticking"
    /\ ev.pre.steps_taken > ForbidSpecialUntil
    /\ ev.pre.branch_requests # <<>>

----------------------------------------------------------------------------
(* C16.  In scenario A (STEP_SIZE 5, bounds 0..20 on both axes, the line    *)
(* from (0,0) with a budget of at least 5, no branch or orth draw) stepping *)
(* until the line cannot continue yields the path (0,0), (5,5), (10,10),    *)
(* (15,15), (20,20), and the line is then stopped (inactive): (20,20) is    *)
(* inside the bounds, and the fifth step() finds all of (25,25), (25,20)    *)
(* and (20,25) outside.                                                     *)
C16_ScenarioA ==
    pc = "ended" =>
        /\ lines[1].path = << <<0, 0>>, <<5, 5>>, <<10, 10>>, <<15, 15>>, <<20, 20>> >>
        /\ ~lines[1].active
        /\ ~can_continue(lines[1])

(* The line stopped at (20,20) by the upper bounds, budget left.            *)
C16_Witness ==
    /\ variant = "scenarioA"
    /\ pc = "ended"
    /\ current_pos(lines[1]) = <<20, 20>>
    /\ lines[1].steps_taken < lines[1].max_steps
    /\ ~lines[1].active

----------------------------------------------------------------------------
(* C17.  Within a session the grid only grows: every step other than a      *)
(* reset (the construction of a line, a move, a step() call, a tick)        *)
(* leaves a superset of the grid it found; and every point of every line's  *)
(* path is in the grid.                                                     *)
C17_GridAppendOnly ==
    /\ [](\A k \in LineIds : Points(lines[k], 1) \subseteq occupied)
    /\ [][ResetGeneration \/ occupied \subseteq occupied']_vars

(* A grid grown by moves and by the construction of a branch line.          *)
C17_Witness ==
    /\ Cardinality(occupied) >= 30
    /\ \E k \in LineIds : IsBranchLine(lines[k]) /\ lines[k].steps_taken >= OrthBlockLen

----------------------------------------------------------------------------
(* C18.  The axis drawn by the block the last step() call ran, and the      *)
(* moves of that block (indexes into the path of ev.post).                  *)
DrawnAxis == IF ev.coin = "h" THEN <<STEP_SIZE, 0>> ELSE <<0, STEP_SIZE>>

BlockMoves == Len(ev.pre.path) .. (Len(ev.post.path) - 1)

(* C18, as stated: in a block of svg-drawer.py whose first sub-step moved   *)
(* along the drawn axis A, every following sub-step moves along A unless    *)
(* the destination along A is blocked (so an unobstructed block is 5 moves  *)
(* along A).                                                               *)
C18_BlockKeepsDrawnAxis ==
    (/\ variant = "eager"
     /\ ev.line # 0
     /\ ev.r = "orth"
     /\ BlockMoves # {}
     /\ Delta(ev.post, Len(ev.pre.path)) = DrawnAxis)
    => \A m \in BlockMoves :
          \/ Delta(ev.post, m) = DrawnAxis
          \/ Blocked(<<ev.post.path[m][1] + DrawnAxis[1],
                       ev.post.path[m][2] + DrawnAxis[2]>>)

----------------------------------------------------------------------------
(* C19, as stated: a step() call on a line that has run an orthogonal       *)
(* block emits no branch request, and either makes exactly one move, the    *)
(* diagonal one or its fallback (horizontal, then vertical), or stops the   *)
(* line -- under both variants.                                             *)
C19_DiagonalOnlyAfterBlock ==
    (Stepped /\ ev.pre.n_orth >= 1 /\ can_continue(ev.pre)) =>
        /\ ev.post.n_req = ev.pre.n_req
        /\ \/ /\ Len(ev.post.path) = Len(ev.pre.path) + 1
              /\ Delta(ev.post, Len(ev.pre.path)) = PolicyMove(ev.free)
              /\ ev.post.active
           \/ /\ ev.post.path = ev.pre.path
              /\ ~ev.post.active

----------------------------------------------------------------------------
(* C20.  The destination of a direction from the probed point, and whether  *)
(* it is inside the inclusive bounds and not in the grid.                   *)
Dest(d) == <<lines[1].x + d[1], lines[1].y + d[2]>>

Allowed(d) ==
    /\ 0 <= Dest(d)[1] /\ Dest(d)[1] <= WIDTH
    /\ 0 <= Dest(d)[2] /\ Dest(d)[2] <= HEIGHT
    /\ Dest(d) \notin probe.grid

ProbedDirs == <<probe.primary>> \o probe.fallbacks

(* C20.  try_move returns the destination exactly when it is inside the     *)
(* inclusive bounds and not in the grid, else None; systematic_move         *)
(* returns the destination of the first allowed direction in the order      *)
(* primary, fallbacks as listed, and None only when none is allowed; the    *)
(* grid is what it was before the calls.                                    *)
C20_MovementPolicy ==
    pc = "probed" =>
        /\ probe.first = (IF Allowed(probe.primary) THEN Dest(probe.primary) ELSE None)
        /\ probe.chosen = None <=> \A j \in 1..Len(ProbedDirs) : ~Allowed(ProbedDirs[j])
        /\ probe.chosen # None =>
              \E j \in 1..Len(ProbedDirs) :
                  /\ Allowed(ProbedDirs[j])
                  /\ probe.chosen = Dest(ProbedDirs[j])
                  /\ \A q \in 1..(j - 1) : ~Allowed(ProbedDirs[q])
        /\ occupied = probe.grid

(* The primary and the first fallback are blocked, one of them by the grid, *)
(* and the second fallback is taken.                                        *)
C20_Witness ==
    /\ pc = "probed"
    /\ Len(probe.fallbacks) = 2
    /\ probe.first = None
    /\ ~Allowed(probe.fallbacks[1])
    /\ probe.chosen = Dest(probe.fallbacks[2])
    /\ probe.primary # probe.fallbacks[1]
    /\ \E j \in 1..2 : Dest(ProbedDirs[j]) \in probe.grid

----------------------------------------------------------------------------
(* C21.  In the deferred variant step() is only called on the top of the    *)
(* run stack and requests become lines only when their owner cannot         *)
(* continue: every stack entry below the top has taken no step (its path    *)
(* has length 1), every line in finished_lines is terminal, the line last   *)
(* stepped is the top of the stack or the line finished last, a line with   *)
(* queued requests is the live top of the stack, and the parent of every    *)
(* branch line is terminal.                                                 *)
C21_OnlyTopIsStepped ==
    variant = "deferred" =>
        /\ \A j \in 1..(Len(lines_stack) - 1) :
              /\ lines[lines_stack[j]].steps_taken = 0
              /\ Len(lines[lines_stack[j]].path) = 1
        /\ \A j \in 1..Len(finished_lines) : ~can_continue(lines[finished_lines[j]])
        /\ Stepped =>
              \/ lines_stack # <<>> /\ ev.line = lines_stack[Len(lines_stack)]
              \/ finished_lines # <<>> /\ ev.line = finished_lines[Len(finished_lines)]
        /\ \A k \in LineIds :
              /\ lines[k].branch_requests # <<>> =>
                    /\ can_continue(lines[k])
                    /\ lines_stack # <<>> /\ k = lines_stack[Len(lines_stack)]
              /\ IsBranchLine(lines[k]) => ~can_continue(lines[lines[k].parent])

(* Two branch lines on the stack: the top has moved, the one below it has   *)
(* not.                                                                     *)
C21_Witness ==
    /\ variant = "deferred"
    /\ Len(lines_stack) >= 2
    /\ lines[lines_stack[Len(lines_stack)]].steps_taken > 0
    /\ IsBranchLine(lines[lines_stack[1]])
    /\ finished_lines # <<>>

----------------------------------------------------------------------------
(* C22.  The lines that hold a point at a position of their path other      *)
(* than the first.                                                          *)
MovedOnto(pt) ==
    { k \in LineIds : \E p \in 2..Len(lines[k].path) : lines[k].path[p] = pt }

(* C22.  No move lands on an occupied point, in both variants: the points   *)
(* the last step() call appended to the path were all absent from the grid  *)
(* before the call; no line holds a point twice; and no point was moved     *)
(* onto by two lines, so that a point held by several lines is the start    *)
(* point of all of them but one.                                            *)
C22_NoMoveOntoOccupied ==
    /\ Stepped => Points(ev.post, Len(ev.pre.path) + 1) \subseteq ev.added
    /\ \A k \in LineIds :
          \A p, q \in 1..Len(lines[k].path) :
              lines[k].path[p] = lines[k].path[q] => p = q
    /\ \A pt \in occupied : Cardinality(MovedOnto(pt)) <= 1

(* A point held by three lines (a parent moved onto it, two branch lines    *)
(* start there), after a step() call that appended several points.          *)
C22_Witness ==
    /\ \E pt \in occupied :
          /\ Cardinality({ k \in LineIds : pt \in Points(lines[k], 1) }) >= 3
          /\ Cardinality(MovedOnto(pt)) = 1
    /\ Stepped
    /\ Len(ev.post.path) > Len(ev.pre.path)

----------------------------------------------------------------------------
(* C23.  In svg-drawer.py a step() call on a line that can continue either  *)
(* appends at least one point (steps_taken grows) or sets active to false,  *)
(* so it never leaves the line as it was; a step() call on a line that      *)
(* cannot continue changes neither the line nor the grid and consumes no    *)
(* draw.                                                                    *)
C23_StepProgress ==
    (variant = "eager" /\ Stepped) =>
        IF can_continue(ev.pre)
        THEN /\ \/ /\ Len(ev.post.path) > Len(ev.pre.path)
                   /\ ev.post.steps_taken > ev.pre.steps_taken
                \/ ~ev.post.active
             /\ ev.post # ev.pre
        ELSE /\ ev.post = ev.pre
             /\ ev.added = {}
             /\ ev.r = "none" /\ ev.coin = "none"

(* step() was called on a line that had stopped with budget left, in a      *)
(* session where a block stopped a line after moving it.                    *)
C23_Witness ==
    /\ variant = "eager"
    /\ Stepped
    /\ ~ev.pre.active
    /\ ev.pre.steps_taken < ev.pre.max_steps
    /\ \E k \in LineIds : lines[k].used_branch

----------------------------------------------------------------------------
(* C24.  The guard `if max_steps <= 0: return None` of create_branch_line   *)
(* is never taken: in both variants every request was emitted with a        *)
(* leftover of at least 10, every queued request and every branch line      *)
(* carries max_steps >= 15, and in svg-drawer.py every line that branched   *)
(* has its branch line.                                                     *)
C24_BranchBudgetAtLeast15 ==
    /\ \A k \in LineIds :
          /\ \A j \in 1..Len(lines[k].req_log) :
                lines[k].max_steps - lines[k].req_log[j] >= MinLeftoverToBranch
          /\ \A j \in 1..Len(lines[k].branch_requests) :
                lines[k].branch_requests[j][3] >= MinLeftoverToBranch + BranchBonus
          /\ IsBranchLine(lines[k]) =>
                lines[k].max_steps >= MinLeftoverToBranch + BranchBonus
          /\ (variant = "eager" /\ lines[k].used_branch) =>
                \E c \in LineIds : IsBranchLine(lines[c]) /\ lines[c].parent = k
    /\ Stepped /\ ev.post.n_req > ev.pre.n_req =>
          ev.pre.max_steps - ev.pre.steps_taken >= MinLeftoverToBranch

(* A branch line of svg-drawer.py made at the threshold: leftover 10,        *)
(* max_steps 15.                                                            *)
C24_Witness ==
    /\ variant = "eager"
    /\ \E c \in LineIds :
          /\ IsBranchLine(lines[c])
          /\ lines[c].max_steps = MinLeftoverToBranch + BranchBonus
          /\ lines[lines[c].parent].used_branch

====
